---------------------------- MODULE Spec2Model ----------------------------
(***************************************************************************)
(* A model of the beancounters ledger mutation engine (src/src/beancount.rs *)
(* behind the handlers of src/src/api.rs).  Files are byte sequences; an    *)
(* ASCII byte is a one-character string, any other byte two hex digits;     *)
(* offsets are 0-based as in the source.                                    *)
(***************************************************************************)
EXTENDS Integers, Sequences, FiniteSets, TLC

VARIABLES
    fs,        \* the file system: path (byte sequence) -> content (byte sequence)
    poisoned,  \* write_lock is poisoned: a holder panicked
    listed,    \* the result of the client's latest list_transactions call
    last,      \* the latest call: operation, arguments, outcome, file system before it
    nOps,      \* number of calls made so far
    seed,      \* which ledger directory the process was started on
    lockHeld,  \* blocking tasks: write_lock is held
    pc,        \* blocking tasks: each worker's position in its handler
    req,       \* blocking tasks: each worker's request
    loc        \* blocking tasks: each worker's local variables

vars == <<fs, poisoned, listed, last, nOps, seed, lockHeld, pc, req, loc>>

-----------------------------------------------------------------------------
(* Bounds *)

MaxOps == 3

\* the number of requests the two blocking tasks serve
MaxCalls == 2

-----------------------------------------------------------------------------
(* Bytes and strings *)

NL == "\n"
SP == " "
QT == "\""

Digits == <<"0", "1", "2", "3", "4", "5", "6", "7", "8", "9">>

IsDigit(c) == c \in {"0", "1", "2", "3", "4", "5", "6", "7", "8", "9"}

DigitVal(c) == (CHOOSE i \in 1..10 : Digits[i] = c) - 1

Max(a, b) == IF a >= b THEN a ELSE b

\* content[from..to) with 0-based offsets, as a Rust slice &content[from..to]
Slice(content, from, to) == SubSeq(content, from + 1, to)

\* the byte at a 0-based offset
At(content, i) == content[i + 1]

\* bytes outside ASCII are written as two hex digits; these continue a character
ContinuationBytes == {"BC"}

\* str::is_char_boundary
IsCharBoundary(content, i) ==
    i = 0 \/ i >= Len(content) \/ content[i + 1] \notin ContinuationBytes

AllDigits(s) == Len(s) > 0 /\ \A i \in 1..Len(s) : IsDigit(s[i])

RECURSIVE ToNat(_)
ToNat(s) == IF Len(s) = 0 THEN 0
            ELSE 10 * ToNat(SubSeq(s, 1, Len(s) - 1)) + DigitVal(s[Len(s)])

\* Display of an unsigned integer
RECURSIVE FmtNat(_)
FmtNat(n) == IF n < 10 THEN <<Digits[n + 1]>>
             ELSE FmtNat(n \div 10) \o <<Digits[(n % 10) + 1]>>

\* digits left-padded with "0" to a width
RECURSIVE PadTo(_, _)
PadTo(d, w) == IF Len(d) >= w THEN d ELSE PadTo(<<"0">> \o d, w)

\* Display of an unsigned integer zero-padded to a width
FmtPad(n, w) == PadTo(FmtNat(n), w)

\* offset of the first occurrence of byte c at or after offset i, Len(s) if none
RECURSIVE Find(_, _, _)
Find(s, c, i) == IF i >= Len(s) THEN Len(s)
                 ELSE IF s[i + 1] = c THEN i
                 ELSE Find(s, c, i + 1)

\* str::contains
Contains(s, pat) ==
    \E i \in 0..(Len(s) - Len(pat)) : Slice(s, i, i + Len(pat)) = pat

\* Option<String>
None == [some |-> FALSE]
Some(v) == [some |-> TRUE, val |-> v]
UnwrapOrDefault(o) == IF o.some THEN o.val ELSE <<>>

-----------------------------------------------------------------------------
(* String constants of the program *)

DataDir == <<"d", "a", "t", "a">>
MainBean == <<"m", "a", "i", "n", ".", "b", "e", "a", "n">>
AccountsBean == <<"a", "c", "c", "o", "u", "n", "t", "s", ".", "b", "e", "a", "n">>
DotBean == <<".", "b", "e", "a", "n">>
IncludeKw == <<"i", "n", "c", "l", "u", "d", "e">>
OpenKw == <<"o", "p", "e", "n">>

\* Path::join
Join(dir, name) == dir \o <<"/">> \o name

\* offset just past the last "/" of a path, 0 if it has none
RECURSIVE LastSlash(_, _, _)
LastSlash(path, i, acc) ==
    IF i >= Len(path) THEN acc
    ELSE LastSlash(path, i + 1, IF path[i + 1] = "/" THEN i + 1 ELSE acc)

\* Path::file_name
FileName(path) == Slice(path, LastSlash(path, 0, 0), Len(path))

\* Path::parent
Parent(path) == Slice(path, 0, LastSlash(path, 0, 0) - 1)

EndsWithBean(n) ==
    /\ Len(n) > Len(DotBean)
    /\ Slice(n, Len(n) - Len(DotBean), Len(n)) = DotBean

\* path.extension() == "bean"
HasBeanExtension(path) == EndsWithBean(FileName(path))

-----------------------------------------------------------------------------
(* chrono::NaiveDate::parse_from_str(s, "%Y-%m-%d") *)

IsLeap(y) == (y % 4 = 0 /\ y % 100 # 0) \/ y % 400 = 0

DaysIn(y, m) == IF m = 2 THEN (IF IsLeap(y) THEN 29 ELSE 28)
                ELSE IF m \in {4, 6, 9, 11} THEN 30 ELSE 31

DateFail == [ok |-> FALSE, year |-> 0, month |-> 0, day |-> 0]

\* the date exists in the calendar
DateFields(y, m, d) ==
    IF m \in 1..12 /\ d \in 1..DaysIn(y, m)
    THEN [ok |-> TRUE, year |-> y, month |-> m, day |-> d]
    ELSE DateFail

\* %Y takes up to four digits, %m and %d up to two
DateTexts(ys, ms, ds) ==
    IF /\ AllDigits(ys) /\ Len(ys) <= 4
       /\ AllDigits(ms) /\ Len(ms) <= 2
       /\ AllDigits(ds) /\ Len(ds) <= 2
    THEN DateFields(ToNat(ys), ToNat(ms), ToNat(ds))
    ELSE DateFail

DateSplit(s, i1, i2) ==
    IF i1 < Len(s) /\ i2 < Len(s)
    THEN DateTexts(Slice(s, 0, i1), Slice(s, i1 + 1, i2), Slice(s, i2 + 1, Len(s)))
    ELSE DateFail

DateSplitAt(s, i1) == DateSplit(s, i1, Find(s, "-", i1 + 1))

ParseDate(s) == DateSplitAt(s, Find(s, "-", 0))

\* format!("{}-{:02}.bean", date.format("%Y"), date.format("%m"))
PeriodFileName(date) == FmtPad(date.year, 4) \o <<"-">> \o FmtPad(date.month, 2) \o DotBean

\* format!("include \"{}\"", filename)
IncludeLine(filename) == IncludeKw \o <<SP, QT>> \o filename \o <<QT>>

-----------------------------------------------------------------------------
(* Entry synthesis *)

\* format!("  {} {} {}\n", p.account, p.amount, p.currency)
PostingText(p) == <<SP, SP>> \o p.account \o <<SP>> \o p.amount \o <<SP>> \o p.currency \o <<NL>>

RECURSIVE PostingsText(_)
PostingsText(ps) == IF Len(ps) = 0 THEN <<>>
                    ELSE PostingText(Head(ps)) \o PostingsText(Tail(ps))

\* format!("{} {} \"{}\" \"{}\"\n", ...): the header line, without the leading "\n"
HeaderText(tx) ==
    tx.date \o <<SP>> \o tx.flag \o <<SP, QT>> \o UnwrapOrDefault(tx.payee)
            \o <<QT, SP, QT>> \o UnwrapOrDefault(tx.narration) \o <<QT, NL>>

\* the text add_transaction appends: a blank line, the header, the postings
TxText(tx) == <<NL>> \o HeaderText(tx) \o PostingsText(tx.postings)

RECURSIVE JoinComma(_)
JoinComma(cs) == IF Len(cs) = 0 THEN <<>>
                 ELSE IF Len(cs) = 1 THEN cs[1]
                 ELSE cs[1] \o <<",">> \o JoinComma(Tail(cs))

\* format!("{} open {} {}\n", account.open_date, account.name, account.currencies.join(","))
AccountText(a) ==
    a.open_date \o <<SP>> \o OpenKw \o <<SP>> \o a.name \o <<SP>> \o JoinComma(a.currencies) \o <<NL>>

-----------------------------------------------------------------------------
(* File system *)

NoFiles == <<>>

Exists(f, path) == path \in DOMAIN f

\* fs::write: create or truncate, then write
WriteFile(f, path, bytes) ==
    IF Exists(f, path) THEN [f EXCEPT ![path] = bytes] ELSE f @@ (path :> bytes)

\* a write that truncates the file first, as File::create followed by write_all would
TruncatingWrite(f, path, bytes) == WriteFile(f, path, bytes)

\* a write at the start of the file, before what the file holds
InsertFirst(f, path, bytes) ==
    IF Exists(f, path) THEN [f EXCEPT ![path] = bytes \o @] ELSE f @@ (path :> bytes)

\* OpenOptions::new().create(true).append(true) followed by write_all
AppendFile(f, path, bytes) ==
    IF Exists(f, path) THEN [f EXCEPT ![path] = @ \o bytes] ELSE f @@ (path :> bytes)

\* fs::read_to_string(..).unwrap_or_default()
ReadOrDefault(f, path) == IF Exists(f, path) THEN f[path] ELSE <<>>

-----------------------------------------------------------------------------
(* The grammar adapter: beancount_parser_lima on the syntax the ledger holds. *)
(* A file is a sequence of lines; a line is blank, a directive header         *)
(* starting in column 0, or an indented posting or metadata line of the       *)
(* directive before it.                                                        *)

\* the lines of a file as spans [s, e): e is the offset of the line's "\n", or the length
RECURSIVE LinesFrom(_, _)
LineSpan(c, s, e) == <<[s |-> s, e |-> e]>> \o LinesFrom(c, e + 1)
LinesFrom(c, s) == IF s >= Len(c) THEN <<>> ELSE LineSpan(c, s, Find(c, NL, s))

\* offset of the first byte that is not a space at or after i, e if none before e
RECURSIVE SkipSpaces(_, _, _)
SkipSpaces(c, i, e) == IF i >= e THEN e
                       ELSE IF c[i + 1] = SP THEN SkipSpaces(c, i + 1, e) ELSE i

\* offset just past the token starting before i: a quoted string runs to its closing quote
RECURSIVE TokenEnd(_, _, _, _)
TokenEnd(c, i, e, quoted) ==
    IF i >= e THEN e
    ELSE IF quoted THEN (IF c[i + 1] = QT THEN i + 1 ELSE TokenEnd(c, i + 1, e, TRUE))
    ELSE IF c[i + 1] = SP THEN i ELSE TokenEnd(c, i + 1, e, FALSE)

\* the tokens of the line [i, e) as spans
RECURSIVE TokensFrom(_, _, _)
TokenSpan(c, s, t, e) == <<[s |-> s, e |-> t]>> \o TokensFrom(c, t, e)
\* a ";" starts a comment that runs to the end of the line
TokenAt(c, s, e) ==
    IF s >= e THEN <<>>
    ELSE IF c[s + 1] = ";" THEN <<>>
    ELSE TokenSpan(c, s, TokenEnd(c, s + 1, e, c[s + 1] = QT), e)
TokensFrom(c, i, e) == TokenAt(c, SkipSpaces(c, i, e), e)

Text(c, t) == Slice(c, t.s, t.e)

IsStringTok(c, t) == t.e - t.s >= 2 /\ c[t.s + 1] = QT /\ c[t.e] = QT

StringVal(c, t) == Slice(c, t.s + 1, t.e - 1)

\* a date token: YYYY-MM-DD naming a day of the calendar
IsDateText(x) == Len(x) = 10 /\ x[5] = "-" /\ x[8] = "-" /\ ParseDate(x).ok

\* Display of a date: {year}-{month:02}-{day:02}
FmtDate(d) == FmtPad(d.year, 4) \o <<"-">> \o FmtPad(d.month, 2) \o <<"-">> \o FmtPad(d.day, 2)

DateDisplay(x) == FmtDate(ParseDate(x))

\* a decimal number: digits, or digits "." digits
NumberAt(x, dot) ==
    /\ AllDigits(Slice(x, 0, dot))
    /\ dot < Len(x) => AllDigits(Slice(x, dot + 1, Len(x)))

IsNumberText(x) == NumberAt(x, Find(x, ".", 0))

\* Display of a decimal number: the integer part without leading zeros, the scale kept
FmtNumber(x, dot) == FmtNat(ToNat(Slice(x, 0, dot))) \o Slice(x, dot, Len(x))

NumberDisplay(x) == FmtNumber(x, Find(x, ".", 0))

\* split on ","
RECURSIVE SplitComma(_)
SplitAt(x, k) == <<Slice(x, 0, k)>> \o SplitComma(Slice(x, k + 1, Len(x)))
SplitComma(x) == IF Len(x) = 0 THEN <<>> ELSE SplitAt(x, Find(x, ",", 0))

FlagTexts == {<<"*">>, <<"!">>}

ParseFail == [ok |-> FALSE, directives |-> <<>>]

\* the strings of a transaction header: at most two, a single one is the narration
HeaderStrings(c, strs) ==
    [ok |-> Len(strs) <= 2 /\ \A i \in 1..Len(strs) : IsStringTok(c, strs[i]),
     payee |-> IF Len(strs) = 2 THEN Some(StringVal(c, strs[1])) ELSE None,
     narration |-> IF Len(strs) = 0 THEN None ELSE Some(StringVal(c, strs[Len(strs)])),
     narrEnd |-> IF Len(strs) = 0 THEN 0 ELSE strs[Len(strs)].e]

\* a transaction header line: date flag [string [string]]
TxnDirective(c, toks, ln, h) ==
    [kind |-> "txn", ok |-> h.ok,
     dateStart |-> toks[1].s, dateEnd |-> toks[1].e,
     date |-> DateDisplay(Text(c, toks[1])),
     flag |-> Text(c, toks[2]),
     payee |-> h.payee, narration |-> h.narration, narrEnd |-> h.narrEnd,
     postings |-> <<>>,
     lastLine |-> ln.e]

TxnHeader(c, toks, ln) == TxnDirective(c, toks, ln, HeaderStrings(c, SubSeq(toks, 3, Len(toks))))

\* an open directive line: date open account [currency,...]
OpenHeader(c, toks) ==
    [kind |-> "open", ok |-> Len(toks) \in {3, 4},
     dateStart |-> toks[1].s, dateEnd |-> toks[1].e,
     date |-> DateDisplay(Text(c, toks[1])),
     account |-> IF Len(toks) >= 3 THEN Text(c, toks[3]) ELSE <<>>,
     currencies |-> IF Len(toks) = 4 THEN SplitComma(Text(c, toks[4])) ELSE <<>>]

\* an include line: include "file"
IncludeHeader(c, toks) ==
    [kind |-> "include", ok |-> Len(toks) = 2 /\ IsStringTok(c, toks[2]),
     file |-> IF Len(toks) = 2 THEN StringVal(c, toks[2]) ELSE <<>>]

\* an indented posting line: account [amount] [currency]
PostingFields(c, toks, hasAmount) ==
    [ok |-> Len(toks) <= 3 /\ (Len(toks) = 3 => hasAmount),
     account |-> Text(c, toks[1]), accountEnd |-> toks[1].e,
     amount |-> IF hasAmount THEN Some(NumberDisplay(Text(c, toks[2]))) ELSE None,
     amountEnd |-> IF hasAmount THEN toks[2].e ELSE 0,
     currency |-> IF Len(toks) = 3 THEN Some(Text(c, toks[3]))
                  ELSE IF Len(toks) = 2 /\ ~hasAmount THEN Some(Text(c, toks[2]))
                  ELSE None]

PostingLine(c, toks) ==
    PostingFields(c, toks, Len(toks) >= 2 /\ IsNumberText(Text(c, toks[2])))

\* a directive added to the directives parsed so far
AddDirective(acc, d) == IF d.ok THEN [acc EXCEPT !.directives = Append(@, d)] ELSE ParseFail

\* a posting added to the transaction parsed last
AddPosting(acc, n, p, ln) ==
    IF n = 0 \/ ~p.ok THEN ParseFail
    ELSE IF acc.directives[n].kind # "txn" THEN ParseFail
    ELSE [acc EXCEPT !.directives[n].postings = Append(@, p),
                     !.directives[n].lastLine = ln.e]

\* an indented metadata line: key: value
IsMetaLine(c, toks) == Len(toks) = 2 /\ toks[1].e - toks[1].s >= 2 /\ c[toks[1].e] = ":"

\* metadata belongs to the directive, or to the posting, before it; the accessors
\* the program reads do not change
AddMeta(acc, n, ln) ==
    IF n = 0 THEN ParseFail
    ELSE IF acc.directives[n].kind # "txn" THEN acc
    ELSE [acc EXCEPT !.directives[n].lastLine = ln.e]

Indented(c, acc, ln, toks) ==
    IF IsMetaLine(c, toks) THEN AddMeta(acc, Len(acc.directives), ln)
    ELSE AddPosting(acc, Len(acc.directives), PostingLine(c, toks), ln)

\* a header line: a date and a directive keyword or flag
DatedLine(c, acc, ln, toks) ==
    IF Len(toks) < 2 THEN ParseFail
    ELSE IF ~IsDateText(Text(c, toks[1])) THEN ParseFail
    ELSE IF Text(c, toks[2]) \in FlagTexts THEN AddDirective(acc, TxnHeader(c, toks, ln))
    ELSE IF Text(c, toks[2]) = OpenKw THEN AddDirective(acc, OpenHeader(c, toks))
    ELSE ParseFail

LineTokens(c, acc, ln, toks) ==
    IF Len(toks) = 0 THEN acc
    ELSE IF c[ln.s + 1] = SP THEN Indented(c, acc, ln, toks)
    ELSE IF Text(c, toks[1]) = IncludeKw THEN AddDirective(acc, IncludeHeader(c, toks))
    ELSE DatedLine(c, acc, ln, toks)

\* one line added to the directives parsed so far
ParseLine(c, acc, ln) == IF ~acc.ok THEN acc ELSE LineTokens(c, acc, ln, TokensFrom(c, ln.s, ln.e))

RECURSIVE ParseLines(_, _, _, _)
ParseLines(c, lines, i, acc) ==
    IF i > Len(lines) THEN acc
    ELSE ParseLines(c, lines, i + 1, ParseLine(c, acc, lines[i]))

\* the directives of one file's content, or failure
ParseContent(c) == ParseLines(c, LinesFrom(c, 0), 1, [ok |-> TRUE, directives |-> <<>>])

IsInclude(d) == d.kind = "include"
NotInclude(d) == d.kind # "include"

\* the directives of a file followed by those of the files it includes
WithIncluded(own, inc) ==
    IF own.ok /\ inc.ok
    THEN [ok |-> TRUE, directives |-> SelectSeq(own.directives, NotInclude) \o inc.directives]
    ELSE ParseFail

\* the directives of the included files, in include order
RECURSIVE ParseIncludes(_, _, _, _)
ParseIncluded(f, dir, ds, i, path) ==
    IF ~Exists(f, path) THEN ParseFail
    ELSE WithIncluded(ParseContent(f[path]), ParseIncludes(f, dir, ds, i + 1))
ParseIncludes(f, dir, ds, i) ==
    IF i > Len(ds) THEN [ok |-> TRUE, directives |-> <<>>]
    ELSE IF ~IsInclude(ds[i]) THEN ParseIncludes(f, dir, ds, i + 1)
    ELSE ParseIncluded(f, dir, ds, i, Join(dir, ds[i].file))

ParseRoot(f, path, root) ==
    IF ~root.ok THEN ParseFail
    ELSE WithIncluded(root, ParseIncludes(f, Parent(path), root.directives, 1))

\* BeancountSources::try_from(path) and BeancountParser::parse: the directives of the
\* file and of the files it includes; every span is an offset into the directive's own file
ParseSources(f, path) ==
    IF ~Exists(f, path) THEN ParseFail ELSE ParseRoot(f, path, ParseContent(f[path]))

-----------------------------------------------------------------------------
(* Identifier codec *)

\* format!("{}:{}", path_str, start)
EncodeId(path, start) == path \o <<":">> \o FmtNat(start)

\* usize::MAX of a 64-bit build, as decimal digits
UsizeMax ==
    << "1", "8", "4", "4", "6", "7", "4", "4", "0", "7",
       "3", "7", "0", "9", "5", "5", "1", "6", "1", "5" >>

RECURSIVE StripZeros(_)
StripZeros(d) == IF Len(d) > 1 /\ d[1] = "0" THEN StripZeros(Tail(d)) ELSE d

\* a < b for digit strings of one length
RECURSIVE DigitsLess(_, _)
DigitsLess(a, b) ==
    IF Len(a) = 0 THEN FALSE
    ELSE IF a[1] = b[1] THEN DigitsLess(Tail(a), Tail(b))
    ELSE DigitVal(a[1]) < DigitVal(b[1])

\* the value does not overflow usize
NotAboveMax(t) ==
    \/ Len(t) < Len(UsizeMax)
    \/ Len(t) = Len(UsizeMax) /\ ~DigitsLess(UsizeMax, t)

FitsUsize(d) == NotAboveMax(StripZeros(d))

\* usize::from_str takes an optional "+" before the digits
Unsigned(s) == IF Len(s) > 0 /\ s[1] = "+" THEN Tail(s) ELSE s

UsizeDigits(d) == AllDigits(d) /\ FitsUsize(d)

ParsesAsUsize(s) == UsizeDigits(Unsigned(s))

\* parts[0] and parts[1].parse::<usize>()
IdParts(path, offset) ==
    IF ParsesAsUsize(offset)
    THEN [ok |-> TRUE, path |-> path, start |-> ToNat(Unsigned(offset))]
    ELSE [ok |-> FALSE, path |-> path, start |-> 0]

\* the offset text is taken from the colon on
SplitIdKeepColon(id, k) ==
    IF k >= Len(id) THEN [ok |-> FALSE, path |-> id, start |-> 0]
    ELSE IdParts(Slice(id, 0, k), Slice(id, k, Len(id)))

\* id.splitn(2, ':'): k is the offset of the first colon
SplitId(id, k) ==
    IF k >= Len(id) THEN [ok |-> FALSE, path |-> id, start |-> 0]
    ELSE IdParts(Slice(id, 0, k), Slice(id, k + 1, Len(id)))

\* the offset of the last colon of id, Len(id) when there is none
RECURSIVE FindLast(_, _)
FindLast(id, k) ==
    IF k = 0 THEN Len(id)
    ELSE IF id[k] = ":" THEN k - 1
    ELSE FindLast(id, k - 1)

\* the id is split on its last colon
DecodeIdLast(id) == SplitId(id, FindLast(id, Len(id)))

DecodeId(id) == SplitId(id, Find(id, ":", 0))

-----------------------------------------------------------------------------
(* Ledger scanner *)

ToPosting(p) ==
    [account |-> p.account,
     amount |-> UnwrapOrDefault(p.amount),
     currency |-> UnwrapOrDefault(p.currency),
     cost |-> None, price |-> None]

ToTransaction(path, d) ==
    [id |-> Some(EncodeId(path, d.dateStart)),
     date |-> d.date, flag |-> d.flag, payee |-> d.payee, narration |-> d.narration,
     tags |-> <<>>, postings |-> [i \in 1..Len(d.postings) |-> ToPosting(d.postings[i])]]

IsTxn(d) == d.kind = "txn"

ToTransactions(path, ts) == [i \in 1..Len(ts) |-> ToTransaction(path, ts[i])]

Parsed(path, r) ==
    IF r.ok THEN [ok |-> TRUE, txs |-> ToTransactions(path, SelectSeq(r.directives, IsTxn))]
    ELSE [ok |-> FALSE, txs |-> <<>>]

parse_file_transactions(f, path) == Parsed(path, ParseSources(f, path))

\* byte order of the characters a date is displayed with
ByteOrder == <<"-", "0", "1", "2", "3", "4", "5", "6", "7", "8", "9">>
Ord(c) == CHOOSE i \in 1..Len(ByteOrder) : ByteOrder[i] = c

\* String::cmp(a, b) = Less
RECURSIVE StrLess(_, _)
StrLess(a, b) ==
    IF Len(b) = 0 THEN FALSE
    ELSE IF Len(a) = 0 THEN TRUE
    ELSE IF Head(a) = Head(b) THEN StrLess(Tail(a), Tail(b))
    ELSE Ord(Head(a)) < Ord(Head(b))

\* x put before the entries of the sorted list that have its date
RECURSIVE InsertBeforeEqual(_, _)
InsertBeforeEqual(sorted, x) ==
    IF Len(sorted) = 0 THEN <<x>>
    ELSE IF ~StrLess(x.date, Head(sorted).date) THEN <<x>> \o sorted
    ELSE <<Head(sorted)>> \o InsertBeforeEqual(Tail(sorted), x)

\* x put behind every entry of the sorted list whose date is not less than x's
RECURSIVE InsertByDateDesc(_, _)
InsertByDateDesc(sorted, x) ==
    IF Len(sorted) = 0 THEN <<x>>
    ELSE IF StrLess(Head(sorted).date, x.date) THEN <<x>> \o sorted
    ELSE <<Head(sorted)>> \o InsertByDateDesc(Tail(sorted), x)

\* transactions.sort_by(|a, b| b.date.cmp(&a.date)): stable, date descending
RECURSIVE SortByDateDesc(_, _)
SortByDateDesc(xs, sorted) ==
    IF Len(xs) = 0 THEN sorted
    ELSE SortByDateDesc(Tail(xs), InsertByDateDesc(sorted, Head(xs)))

\* the files the directory walk parses: depth 1, extension "bean", not main.bean
ScannedFiles(f, dir) ==
    {p \in DOMAIN f : Parent(p) = dir /\ HasBeanExtension(p) /\ FileName(p) # MainBean}

\* transactions.extend(txs), or the first error
Extend(h, t) ==
    IF h.ok /\ t.ok THEN [ok |-> TRUE, txs |-> h.txs \o t.txs] ELSE [ok |-> FALSE, txs |-> <<>>]

RECURSIVE ScanFiles(_, _)
ScanFiles(f, order) ==
    IF Len(order) = 0 THEN [ok |-> TRUE, txs |-> <<>>]
    ELSE Extend(parse_file_transactions(f, Head(order)), ScanFiles(f, Tail(order)))

Sorted(r) == IF r.ok THEN [ok |-> TRUE, txs |-> SortByDateDesc(r.txs, <<>>)] ELSE r

\* list_transactions; order is the order in which the directory walk yields the files
list_transactions(f, order) == Sorted(ScanFiles(f, order))

\* the orders in which a set of files can be walked
WalkOrders(S) ==
    {o \in [1..Cardinality(S) -> S] : \A i, j \in 1..Cardinality(S) : i # j => o[i] # o[j]}

-----------------------------------------------------------------------------
(* Mutations: each yields an outcome ("ok", "err" or "panic") and the files it leaves *)

Outcome(res, f) == [res |-> res, fs |-> f]

\* !content.contains(&include_line)
NeedsInclude(content, include_line) == ~Contains(content, include_line)

\* the root file is written anew with the include line alone
WriteIncludeOnly(f, main_path, include_line) ==
    WriteFile(f, main_path, include_line \o <<NL>>)

\* main_file.write_all(format!("\n{}\n", include_line)) on the root file opened for append
WriteInclude(f, main_path, include_line) ==
    AppendFile(f, main_path, <<NL>> \o include_line \o <<NL>>)

\* the root file gets the include line unless it contains it
EnsureInclude(f1, main_path, include_line) ==
    IF NeedsInclude(ReadOrDefault(f1, main_path), include_line)
    THEN Outcome("ok", WriteInclude(f1, main_path, include_line))
    ELSE Outcome("ok", f1)

\* the entry appended to the period file
AppendEntry(f, dir, tx, filename) ==
    EnsureInclude(AppendFile(f, Join(dir, filename), TxText(tx)),
                  Join(dir, MainBean), IncludeLine(filename))

\* the root file is opened, and so created, before the date is looked at
AddDatedLate(f, dir, tx, date) ==
    IF ~date.ok THEN Outcome("err", AppendFile(f, Join(dir, MainBean), <<>>))
    ELSE AppendEntry(f, dir, tx, PeriodFileName(date))

AddDated(f, dir, tx, date) ==
    IF ~date.ok THEN Outcome("err", f) ELSE AppendEntry(f, dir, tx, PeriodFileName(date))

add_transaction(f, dir, tx) == AddDated(f, dir, tx, ParseDate(tx.date))

\* the first transaction directive whose date starts at the offset, 0 if none
RECURSIVE FindDirective(_, _, _)
FindDirective(ds, start_byte, i) ==
    IF i > Len(ds) THEN 0
    ELSE IF IsTxn(ds[i]) /\ ds[i].dateStart = start_byte THEN i
    ELSE FindDirective(ds, start_byte, i + 1)

\* end = max(end, account end), then max(end, amount end) if the posting has an amount
PostingEnd(p, end) ==
    IF p.amount.some THEN Max(Max(end, p.accountEnd), p.amountEnd) ELSE Max(end, p.accountEnd)

RECURSIVE PostingsEnd(_, _)
PostingsEnd(ps, end) ==
    IF Len(ps) = 0 THEN end ELSE PostingsEnd(Tail(ps), PostingEnd(Head(ps), end))

\* the end of target_span: the maximum of the tracked token ends
SpanEnd(d) ==
    PostingsEnd(d.postings, IF d.narration.some THEN Max(d.dateEnd, d.narrEnd) ELSE d.dateEnd)

\* one more byte if the scan stopped at a "\n"
PastNewline(content, e) == IF e < Len(content) THEN e + 1 ELSE e

\* end advanced to the first "\n" at or after it, and past it
SpliceEnd(content, end) == PastNewline(content, Find(content, NL, end))

\* &content[end..end+1] panics unless end and end + 1 are character boundaries:
\* the scan aborts at the first character outside ASCII before the "\n"
ScanAborts(content, end) ==
    \E k \in end..(Find(content, NL, end) - 1) :
        ~IsCharBoundary(content, k) \/ ~IsCharBoundary(content, k + 1)

\* format!("{}{}", &content[..start_byte], &content[end..]) written back;
\* slicing beyond the content panics
Splice(f, path, content, start_byte, span_end) ==
    IF span_end > Len(content) \/ ScanAborts(content, span_end) THEN Outcome("panic", f)
    ELSE Outcome("ok", WriteFile(f, path,
             Slice(content, 0, start_byte)
             \o Slice(content, SpliceEnd(content, span_end), Len(content))))

\* the file is cut at the offset before the directives are searched
DeleteFoundCutFirst(f, parts, ds, k) ==
    IF k = 0
    THEN Outcome("err", WriteFile(f, parts.path,
             Slice(f[parts.path], 0,
                   IF parts.start < Len(f[parts.path]) THEN parts.start
                   ELSE Len(f[parts.path]))))
    ELSE Splice(f, parts.path, f[parts.path], parts.start, SpanEnd(ds[k]))

DeleteFound(f, parts, ds, k) ==
    IF k = 0 THEN Outcome("err", f)
    ELSE Splice(f, parts.path, f[parts.path], parts.start, SpanEnd(ds[k]))

DeleteParsed(f, parts, result) ==
    IF ~result.ok THEN Outcome("err", f)
    ELSE DeleteFound(f, parts, result.directives,
                     FindDirective(result.directives, parts.start, 1))

DeleteDecoded(f, parts) ==
    IF ~parts.ok THEN Outcome("err", f)
    ELSE IF ~Exists(f, parts.path) THEN Outcome("err", f)
    ELSE DeleteParsed(f, parts, ParseSources(f, parts.path))

delete_transaction(f, id) == DeleteDecoded(f, DecodeId(id))

\* the working directory instead of the ledger directory
UpdateDirCwd == <<".">>

\* the directory update_transaction recreates the entry in: Path::new("data")
UpdateDir == <<"d", "a", "t", "a">>

\* add_transaction after a delete_transaction that succeeded
Recreate(d, tx) == IF d.res # "ok" THEN d ELSE add_transaction(d.fs, UpdateDir, tx)

\* an update that checks the new date before it deletes
update_validated(f, id, tx) ==
    IF ~ParseDate(tx.date).ok THEN Outcome("err", f)
    ELSE Recreate(delete_transaction(f, id), tx)

update_transaction(f, id, tx) == Recreate(delete_transaction(f, id), tx)

\* content.lines()
RECURSIVE LineTexts(_, _)
LineText(c, s, e) == <<Slice(c, s, e)>> \o LineTexts(c, e + 1)
LineTexts(c, s) == IF s >= Len(c) THEN <<>> ELSE LineText(c, s, Find(c, NL, s))

\* lines.join("\n")
RECURSIVE JoinLines(_)
JoinLines(ls) == IF Len(ls) = 0 THEN <<>>
                 ELSE IF Len(ls) = 1 THEN ls[1]
                 ELSE ls[1] \o <<NL>> \o JoinLines(Tail(ls))

add_account(f, dir, account) ==
    Outcome("ok", AppendFile(f, Join(dir, AccountsBean), AccountText(account)))

\* the filter of delete_account: the line does not contain "open {name}"
KeepsLine(l, name) == ~Contains(l, OpenKw \o <<SP>> \o name)

\* lines.join("\n") + "\n" of the lines kept
Filtered(content, name) ==
    JoinLines(SelectSeq(LineTexts(content, 0), LAMBDA l : KeepsLine(l, name))) \o <<NL>>

FilterLines(f, path, name) ==
    IF ~Exists(f, path) THEN Outcome("err", f)
    ELSE Outcome("ok", WriteFile(f, path, Filtered(f[path], name)))

delete_account(f, dir, name) == FilterLines(f, Join(dir, AccountsBean), name)

ReopenAccount(d, dir, account) == IF d.res # "ok" THEN d ELSE add_account(d.fs, dir, account)

update_account(f, dir, name, account) == ReopenAccount(delete_account(f, dir, name), dir, account)

OpenNames(r) ==
    IF r.ok THEN [ok |-> TRUE,
                  names |-> LET os == SelectSeq(r.directives, LAMBDA d : d.kind = "open")
                            IN  [i \in 1..Len(os) |-> os[i].account]]
    ELSE [ok |-> FALSE, names |-> <<>>]

\* the account names list_accounts returns
list_accounts(f, dir) ==
    IF ~Exists(f, Join(dir, AccountsBean)) THEN [ok |-> TRUE, names |-> <<>>]
    ELSE OpenNames(ParseSources(f, Join(dir, AccountsBean)))

-----------------------------------------------------------------------------
(* Inputs: the requests clients send, and the ledgers the process starts on *)

D0105 == <<"2", "0", "2", "4", "-", "0", "1", "-", "0", "5">>
D0109 == <<"2", "0", "2", "4", "-", "0", "1", "-", "0", "9">>
D0112 == <<"2", "0", "2", "4", "-", "0", "1", "-", "1", "2">>
D0203 == <<"2", "0", "2", "4", "-", "0", "2", "-", "0", "3">>
DBad == <<"2", "0", "2", "4", "-", "1", "3", "-", "0", "1">>
Bank == <<"A", "s", "s", "e", "t", "s", ":", "B", "a", "n", "k">>
BankX == <<"A", "s", "s", "e", "t", "s", ":", "B", "a", "n", "k", "X">>
Cash == <<"A", "s", "s", "e", "t", "s", ":", "C", "a", "s", "h">>
USD == <<"U", "S", "D">>

Posting(account, amount, currency) ==
    [account |-> account, amount |-> amount, currency |-> currency, cost |-> None, price |-> None]

Tx(date, flag, payee, narration, postings) ==
    [id |-> None, date |-> date, flag |-> flag, payee |-> payee, narration |-> narration,
     tags |-> <<>>, postings |-> postings]

TxA == Tx(D0105, <<"*">>, Some(<<"p">>), Some(<<"n">>), <<Posting(Bank, <<"1">>, USD)>>)
TxB == Tx(D0203, <<"!">>, None, None, <<>>)
TxC == Tx(D0109, <<"*">>, Some(<<"q">>), Some(<<>>),
          <<Posting(Bank, <<"2">>, USD), Posting(Cash, <<>>, <<>>)>>)
TxBad == Tx(DBad, <<"*">>, Some(<<"p">>), Some(<<"n">>), <<>>)

TxInputs == {TxA, TxB, TxC, TxBad}

Account(name, open_date, currencies) ==
    [name |-> name, open_date |-> open_date, currencies |-> currencies, close_date |-> None]

AccountInputs ==
    {Account(Bank, D0105, <<USD>>), Account(BankX, D0109, <<>>), Account(Cash, D0105, <<USD>>)}

AccountNames == {Bank, BankX, Cash}

\* an id that is no "path:offset"
BadId == <<"x">>

\* a hand-edited period file: two adjacent entries, a blank line, a third entry
ManualPeriod ==
    HeaderText(TxA) \o PostingsText(TxA.postings)
    \o HeaderText(Tx(D0109, <<"!">>, Some(<<"q">>), Some(<<"m">>), <<>>))
    \o <<NL>>
    \o HeaderText(Tx(D0112, <<"*">>, Some(<<"r">>), Some(<<"s">>), <<>>))

ManualFs ==
    (Join(DataDir, PeriodFileName(ParseDate(D0105))) :> ManualPeriod)
    @@ (Join(DataDir, MainBean) :> (IncludeLine(PeriodFileName(ParseDate(D0105))) \o <<NL>>))
    @@ (Join(DataDir, AccountsBean) :> AccountText(Account(Bank, D0105, <<USD>>)))

\* a hand-edited period file: the second entry ends with a metadata line, the header
\* of the third with a comment that holds a two-byte character
AnnotatedPeriod ==
    HeaderText(TxA) \o PostingsText(TxA.postings)
    \o HeaderText(Tx(D0109, <<"!">>, Some(<<"q">>), Some(<<"m">>), <<>>))
    \o PostingText(Posting(Cash, <<"2">>, USD))
    \o <<SP, SP, SP, SP, "r", "e", "f", ":", SP, QT, "7", QT, NL>>
    \o <<"2", "0", "2", "4", "-", "0", "1", "-", "1", "2", SP, "*", SP, QT, "s", QT,
         SP, ";", SP, "f", "C3", "BC", "r", NL>>

AnnotatedFs ==
    (Join(DataDir, PeriodFileName(ParseDate(D0105))) :> AnnotatedPeriod)
    @@ (Join(DataDir, MainBean) :> (IncludeLine(PeriodFileName(ParseDate(D0105))) \o <<NL>>))

Seeds == {"empty", "manual"}

\* AppState::new keeps a ledger directory that exists and creates one that does not
SeedFs(sd) == IF sd = "empty" THEN NoFiles ELSE ManualFs

-----------------------------------------------------------------------------
(* The handlers of api.rs, one call per step *)

\* AppState::new("data".to_string())
StateDataDir == <<"d", "a", "t", "a">>

Workers == {1, 2}

NoCall == [op |-> "none", res |-> "ok", ran |-> FALSE, id |-> <<>>, tx |-> TxB,
           name |-> <<>>, before |-> NoFiles, since |-> 0]

\* the record of a call: since counts the calls that changed a file after the latest listing
Call(op, out, ran, id, tx, name) ==
    [op |-> op, res |-> out.res, ran |-> ran, id |-> id, tx |-> tx, name |-> name,
     before |-> fs,
     since |-> IF ran /\ out.fs # fs THEN last.since + 1 ELSE last.since]

NoAccount == Account(<<>>, <<>>, <<>>)

\* a request a write handler got: before is the ledger when the task took the lock,
\* turn its place in the order in which the tasks took the lock
Request(op, id, tx, name, account) ==
    [op |-> op, id |-> id, tx |-> tx, name |-> name, account |-> account,
     res |-> "pending", before |-> NoFiles, turn |-> 0]

\* the local variables of a task: content and end of delete_transaction and its like,
\* the path a reader has open, errors_str and warnings_str of verify, and whether the
\* File verify created is still the file at its path
Locals(content, end) ==
    [content |-> content, end |-> end, path |-> <<>>,
     errors_str |-> <<>>, warnings_str |-> <<>>, file |-> FALSE]

ConcIdle ==
    /\ lockHeld = FALSE
    /\ pc = [w \in Workers |-> "idle"]
    /\ req = [w \in Workers |-> Request("none", <<>>, TxB, <<>>, NoAccount)]
    /\ loc = [w \in Workers |-> Locals(<<>>, 0)]

Init ==
    /\ seed \in Seeds
    /\ fs = SeedFs(seed)
    /\ poisoned = FALSE
    /\ listed = <<>>
    /\ last = NoCall
    /\ nOps = 0
    /\ ConcIdle

\* let _lock = state.write_lock.lock().unwrap(); then the mutation:
\* a poisoned lock makes unwrap panic, a panic of the mutation poisons the lock
Locked(op, out, id, tx, name) ==
    /\ nOps < MaxOps
    /\ nOps' = nOps + 1
    /\ IF poisoned
       THEN /\ last' = Call(op, Outcome("panic", fs), FALSE, id, tx, name)
            /\ UNCHANGED <<fs, poisoned>>
       ELSE /\ last' = Call(op, out, TRUE, id, tx, name)
            /\ fs' = out.fs
            /\ poisoned' = (out.res = "panic")
    /\ UNCHANGED <<listed, seed, lockHeld, pc, req, loc>>

ListedIds == {listed[i].id.val : i \in 1..Len(listed)}

\* an id of the latest listing redirected at the root file
OnMain(id) == EncodeId(Join(StateDataDir, MainBean), DecodeId(id).start)

IdInputs == ListedIds \cup {OnMain(id) : id \in ListedIds} \cup {BadId}

Listing(r) ==
    /\ listed' = IF r.ok THEN r.txs ELSE listed
    /\ last' = [op |-> "list", res |-> IF r.ok THEN "ok" ELSE "err", ran |-> TRUE,
                id |-> <<>>, tx |-> TxB, name |-> <<>>, before |-> fs, since |-> 0]

ListTransactions ==
    /\ nOps < MaxOps
    /\ nOps' = nOps + 1
    /\ \E order \in WalkOrders(ScannedFiles(fs, StateDataDir)) :
          Listing(list_transactions(fs, order))
    /\ UNCHANGED <<fs, poisoned, seed, lockHeld, pc, req, loc>>

AddTransaction ==
    \E tx \in TxInputs : Locked("add", add_transaction(fs, StateDataDir, tx), <<>>, tx, <<>>)

DeleteTransaction ==
    \E id \in IdInputs : Locked("delete", delete_transaction(fs, id), id, TxB, <<>>)

UpdateTransaction ==
    \E id \in ListedIds, tx \in TxInputs :
        Locked("update", update_transaction(fs, id, tx), id, tx, <<>>)

Next == ListTransactions \/ AddTransaction \/ DeleteTransaction \/ UpdateTransaction

Spec == Init /\ [][Next]_vars

\* the transaction handlers on a ledger with a hand-written metadata line
InitAnnotated ==
    /\ seed = "annotated"
    /\ fs = AnnotatedFs
    /\ poisoned = FALSE
    /\ listed = <<>>
    /\ last = NoCall
    /\ nOps = 0
    /\ ConcIdle

SpecAnnotated == InitAnnotated /\ [][Next]_vars

-----------------------------------------------------------------------------
(* The account handlers of api.rs, one call per step *)

AddAccount ==
    \E account \in AccountInputs :
        Locked("add_account", add_account(fs, StateDataDir, account), <<>>, TxB, account.name)

DeleteAccount ==
    \E name \in AccountNames :
        Locked("delete_account", delete_account(fs, StateDataDir, name), <<>>, TxB, name)

UpdateAccount ==
    \E name \in AccountNames, account \in AccountInputs :
        Locked("update_account", update_account(fs, StateDataDir, name, account),
               <<>>, TxB, name)

NextAcct == AddAccount \/ DeleteAccount \/ UpdateAccount

SpecAcct == Init /\ [][NextAcct]_vars

-----------------------------------------------------------------------------
(* The write handlers run by two blocking tasks, one file operation per step *)

\* the positions of a write handler between taking the guard _lock and dropping it
Held == {"t_append", "t_readmain", "t_writemain", "d_read", "d_parse", "d_write", "d_fill",
         "a_append", "f_read", "f_write", "f_fill", "release"}

\* a handler that goes on without the lock
Unguarded(held) == TRUE

\* write_lock.lock() returns when no task holds the lock
Available(held) == ~held

\* the first file operation of each mutation
FirstStep(op) ==
    CASE op = "add" -> "t_append"
      [] op \in {"delete", "update"} -> "d_read"
      [] op = "add_account" -> "a_append"
      [] OTHER -> "f_read"

\* the directory a mutation works on: state.data_dir, but Path::new("data") for the
\* add_transaction of update_transaction
DirOf(op) == IF op = "update" THEN UpdateDir ELSE StateDataDir

IdsOf(r) == {r.txs[i].id.val : i \in 1..Len(r.txs)}

\* the ids a listing of the files gives a client
IdsOnDisk ==
    IdsOf(list_transactions(fs, CHOOSE o \in WalkOrders(ScannedFiles(fs, StateDataDir)) : TRUE))

ConcRequests ==
    {Request("add", <<>>, tx, <<>>, NoAccount) : tx \in TxInputs}
    \cup {Request("delete", id, TxB, <<>>, NoAccount) :
             id \in IdsOnDisk \cup {OnMain(i) : i \in IdsOnDisk} \cup {BadId}}
    \cup {Request("update", id, TxB, <<>>, NoAccount) : id \in IdsOnDisk}
    \cup {Request("add_account", <<>>, TxB, a.name, a) :
             a \in {Account(Bank, D0105, <<USD>>), Account(BankX, D0109, <<>>)}}
    \cup {Request("delete_account", <<>>, TxB, Bank, NoAccount),
          Request("update_account", <<>>, TxB, Bank, Account(Cash, D0105, <<USD>>))}

\* the handler takes the request and spawns the blocking task
Receive(w) ==
    /\ pc[w] \in {"idle", "done"}
    /\ nOps < MaxCalls
    /\ nOps' = nOps + 1
    /\ \E r \in ConcRequests : req' = [req EXCEPT ![w] = [r EXCEPT !.turn = req[w].turn]]
    /\ pc' = [pc EXCEPT ![w] = "wait"]
    /\ UNCHANGED <<fs, poisoned, listed, last, seed, lockHeld, loc>>

\* the task moves on with the result so far
Step(w, label, res) ==
    /\ pc' = [pc EXCEPT ![w] = label]
    /\ req' = [req EXCEPT ![w].res = res]

\* let _lock = state.write_lock.lock().unwrap()
Acquire(w) ==
    /\ pc[w] = "wait"
    /\ Available(lockHeld)
    /\ IF poisoned
       THEN Step(w, "done", "panic") /\ UNCHANGED lockHeld
       ELSE /\ lockHeld' = TRUE
            /\ pc' = [pc EXCEPT ![w] = FirstStep(req[w].op)]
            /\ req' = [req EXCEPT ![w].before = fs,
                                  ![w].turn = 1 + Max(req[1].turn, req[2].turn)]
    /\ UNCHANGED <<fs, poisoned, listed, last, nOps, seed, loc>>

TxAppended(w, date) ==
    IF ~date.ok THEN Step(w, "release", "err") /\ UNCHANGED fs
    ELSE /\ fs' = AppendFile(fs, Join(DirOf(req[w].op), PeriodFileName(date)), TxText(req[w].tx))
         /\ Step(w, "t_readmain", "pending")

\* add_transaction: the date parsed, the entry appended to the period file
TxAppend(w) ==
    /\ pc[w] = "t_append"
    /\ TxAppended(w, ParseDate(req[w].tx.date))
    /\ UNCHANGED <<poisoned, listed, last, nOps, seed, lockHeld, loc>>

\* add_transaction: main_content read
MainRead(w) ==
    /\ pc[w] = "t_readmain"
    /\ loc' = [loc EXCEPT ![w] = Locals(ReadOrDefault(fs, Join(DirOf(req[w].op), MainBean)), 0)]
    /\ Step(w, "t_writemain", "pending")
    /\ UNCHANGED <<fs, poisoned, listed, last, nOps, seed, lockHeld>>

\* add_transaction: the include line appended unless main_content contains it
MainWrite(w) ==
    /\ pc[w] = "t_writemain"
    /\ fs' = IF NeedsInclude(loc[w].content,
                             IncludeLine(PeriodFileName(ParseDate(req[w].tx.date))))
             THEN WriteInclude(fs, Join(DirOf(req[w].op), MainBean),
                               IncludeLine(PeriodFileName(ParseDate(req[w].tx.date))))
             ELSE fs
    /\ Step(w, "release", "ok")
    /\ UNCHANGED <<poisoned, listed, last, nOps, seed, lockHeld, loc>>

EntryReadAt(w, parts) ==
    IF ~parts.ok \/ ~Exists(fs, parts.path)
    THEN Step(w, "release", "err") /\ UNCHANGED loc
    ELSE /\ loc' = [loc EXCEPT ![w] = Locals(fs[parts.path], 0)]
         /\ Step(w, "d_parse", "pending")

\* delete_transaction: the id split, content read
EntryRead(w) ==
    /\ pc[w] = "d_read"
    /\ EntryReadAt(w, DecodeId(req[w].id))
    /\ UNCHANGED <<fs, poisoned, listed, last, nOps, seed, lockHeld>>

EntryFound(w, ds, k) ==
    IF k = 0 THEN Step(w, "release", "err") /\ UNCHANGED loc
    ELSE /\ loc' = [loc EXCEPT ![w].end = SpanEnd(ds[k])]
         /\ Step(w, "d_write", "pending")

EntryParsed(w, parts, result) ==
    IF ~result.ok THEN Step(w, "release", "err") /\ UNCHANGED loc
    ELSE EntryFound(w, result.directives, FindDirective(result.directives, parts.start, 1))

EntryParseAt(w, parts) ==
    IF ~Exists(fs, parts.path) THEN Step(w, "release", "err") /\ UNCHANGED loc
    ELSE EntryParsed(w, parts, ParseSources(fs, parts.path))

\* delete_transaction: the sources loaded from the path and parsed, the span found
EntryParse(w) ==
    /\ pc[w] = "d_parse"
    /\ EntryParseAt(w, DecodeId(req[w].id))
    /\ UNCHANGED <<fs, poisoned, listed, last, nOps, seed, lockHeld>>

\* a panic unwinds the task: the guard is dropped and the lock is poisoned
EntryWritten(w, out) ==
    IF out.res = "panic"
    THEN /\ poisoned' = TRUE /\ lockHeld' = FALSE
         /\ Step(w, "done", "panic")
         /\ UNCHANGED fs
    ELSE /\ fs' = WriteFile(fs, DecodeId(req[w].id).path, <<>>)
         /\ Step(w, "d_fill", "pending")
         /\ UNCHANGED <<poisoned, lockHeld>>

\* delete_transaction: new_content formatted, then fs::write opens the file, which
\* truncates it
EntryWrite(w) ==
    /\ pc[w] = "d_write"
    /\ EntryWritten(w, Splice(fs, DecodeId(req[w].id).path, loc[w].content,
                              DecodeId(req[w].id).start, loc[w].end))
    /\ UNCHANGED <<listed, last, nOps, seed, loc>>

\* delete_transaction: fs::write writes new_content into the truncated file
EntryFill(w) ==
    /\ pc[w] = "d_fill"
    /\ fs' = Splice(fs, DecodeId(req[w].id).path, loc[w].content,
                    DecodeId(req[w].id).start, loc[w].end).fs
    /\ Step(w, IF req[w].op = "update" THEN "t_append" ELSE "release", "ok")
    /\ UNCHANGED <<poisoned, listed, last, nOps, seed, lockHeld, loc>>

\* add_account: the open line appended to accounts.bean
AccountAppend(w) ==
    /\ pc[w] = "a_append"
    /\ fs' = add_account(fs, DirOf(req[w].op), req[w].account).fs
    /\ Step(w, "release", "ok")
    /\ UNCHANGED <<poisoned, listed, last, nOps, seed, lockHeld, loc>>

\* delete_account: content read
AccountsRead(w) ==
    /\ pc[w] = "f_read"
    /\ IF ~Exists(fs, Join(DirOf(req[w].op), AccountsBean))
       THEN Step(w, "release", "err") /\ UNCHANGED loc
       ELSE /\ loc' = [loc EXCEPT ![w] = Locals(fs[Join(DirOf(req[w].op), AccountsBean)], 0)]
            /\ Step(w, "f_write", "pending")
    /\ UNCHANGED <<fs, poisoned, listed, last, nOps, seed, lockHeld>>

\* delete_account: fs::write opens accounts.bean, which truncates it
AccountsWrite(w) ==
    /\ pc[w] = "f_write"
    /\ fs' = WriteFile(fs, Join(DirOf(req[w].op), AccountsBean), <<>>)
    /\ Step(w, "f_fill", "pending")
    /\ UNCHANGED <<poisoned, listed, last, nOps, seed, lockHeld, loc>>

\* delete_account: fs::write writes the lines kept
AccountsFill(w) ==
    /\ pc[w] = "f_fill"
    /\ fs' = WriteFile(fs, Join(DirOf(req[w].op), AccountsBean),
                       Filtered(loc[w].content, req[w].name))
    /\ Step(w, IF req[w].op = "update_account" THEN "a_append" ELSE "release", "ok")
    /\ UNCHANGED <<poisoned, listed, last, nOps, seed, lockHeld, loc>>

\* the mutation returns and _lock is dropped
Release(w) ==
    /\ pc[w] = "release"
    /\ lockHeld' = FALSE
    /\ pc' = [pc EXCEPT ![w] = "done"]
    /\ UNCHANGED <<fs, poisoned, listed, last, nOps, seed, req, loc>>

\* a step of the write handler run by task w
WriteStep(w) ==
    \/ Receive(w) \/ Acquire(w) \/ Release(w)
    \/ TxAppend(w) \/ MainRead(w) \/ MainWrite(w)
    \/ EntryRead(w) \/ EntryParse(w) \/ EntryWrite(w) \/ EntryFill(w)
    \/ AccountAppend(w) \/ AccountsRead(w) \/ AccountsWrite(w) \/ AccountsFill(w)

NextConc == \E w \in Workers : WriteStep(w)

SpecConc == Init /\ [][NextConc]_vars

-----------------------------------------------------------------------------
(* A read handler beside a write handler: readers take no lock *)

ReadOps == {"list", "list_accounts", "verify"}

\* the first task runs the write handlers, the other the read handlers
Writers == {CHOOSE w \in Workers : \A v \in Workers : w <= v}
Readers == Workers \ Writers

\* the files main.bean includes
IncludedPaths(f, dir) ==
    IF ~Exists(f, Join(dir, MainBean)) THEN {}
    ELSE {Join(dir, d.file) :
             d \in {ParseContent(f[Join(dir, MainBean)]).directives[i] :
                       i \in {k \in 1..Len(ParseContent(f[Join(dir, MainBean)]).directives) :
                                 IsInclude(ParseContent(f[Join(dir, MainBean)]).directives[k])}}}

\* the files a read operation opens
ReadSet(op, f) ==
    CASE op = "list" -> ScannedFiles(f, StateDataDir)
      [] op = "list_accounts" -> {Join(StateDataDir, AccountsBean)} \cap DOMAIN f
      [] OTHER -> ({Join(StateDataDir, MainBean)} \cup IncludedPaths(f, StateDataDir))
                  \cap DOMAIN f

\* the handler spawns the blocking task of a read operation
ReaderReceive(w) ==
    /\ pc[w] \in {"idle", "done"}
    /\ nOps < MaxCalls
    /\ nOps' = nOps + 1
    /\ \E op \in ReadOps : req' = [req EXCEPT ![w] = Request(op, <<>>, TxB, <<>>, NoAccount)]
    /\ pc' = [pc EXCEPT ![w] = "r_open"]
    /\ UNCHANGED <<fs, poisoned, listed, last, seed, lockHeld, loc>>

\* one file of the operation read to its end
ReaderRead(w) ==
    /\ pc[w] = "r_open"
    /\ \E p \in ReadSet(req[w].op, fs) :
          loc' = [loc EXCEPT ![w] = [Locals(fs[p], 0) EXCEPT !.path = p]]
    /\ UNCHANGED <<fs, poisoned, listed, last, nOps, seed, lockHeld, pc, req>>

ReaderReturn(w) ==
    /\ pc[w] = "r_open"
    /\ Step(w, "done", "ok")
    /\ UNCHANGED <<fs, poisoned, listed, last, nOps, seed, lockHeld, loc>>

NextRead ==
    \/ \E w \in Writers : WriteStep(w)
    \/ \E w \in Readers : ReaderReceive(w) \/ ReaderRead(w) \/ ReaderReturn(w)

SpecRead == Init /\ [][NextRead]_vars

-----------------------------------------------------------------------------
(* verify run by two blocking tasks, one file operation per step *)

\* std::env::temp_dir().join("beancount_verify.log")
TempLog ==
    <<"/", "t", "m", "p", "/", "b", "e", "a", "n", "c", "o", "u", "n", "t", "_",
      "v", "e", "r", "i", "f", "y", ".", "l", "o", "g">>

\* fs::remove_file
RemoveFile(f, path) == [p \in DOMAIN f \ {path} |-> f[p]]

\* what write_errors_or_warnings writes for the errors of a parse: nothing if there are
\* none, a report of at least one line otherwise
DiagnosticText(result) == IF result.ok THEN <<>> ELSE <<"e", "r", "r", "o", "r", NL>>

\* the errors of the parse the task made of the ledger it saw
OwnErrors(w) == DiagnosticText(ParseSources(req[w].before, Join(StateDataDir, MainBean)))

\* a write at offset 0 of a file that holds old
Overlay(old, text) == text \o Slice(old, IF Len(text) < Len(old) THEN Len(text) ELSE Len(old), Len(old))

VerifyReceive(w) ==
    /\ pc[w] \in {"idle", "done"}
    /\ nOps < MaxCalls
    /\ nOps' = nOps + 1
    /\ req' = [req EXCEPT ![w] = Request("verify", <<>>, TxB, <<>>, NoAccount)]
    /\ pc' = [pc EXCEPT ![w] = "v_parse"]
    /\ UNCHANGED <<fs, poisoned, listed, last, seed, lockHeld, loc>>

\* the sources loaded from main.bean and parsed
VerifyParse(w) ==
    /\ pc[w] = "v_parse"
    /\ IF ~Exists(fs, Join(StateDataDir, MainBean))
       THEN Step(w, "done", "err")
       ELSE /\ pc' = [pc EXCEPT ![w] = "v_create1"]
            /\ req' = [req EXCEPT ![w].before = fs]
    /\ loc' = [loc EXCEPT ![w] = Locals(<<>>, 0)]
    /\ UNCHANGED <<fs, poisoned, listed, last, nOps, seed, lockHeld>>

\* File::create(&temp_path): the log created, or truncated if it is there
VerifyCreate(w) ==
    /\ pc[w] \in {"v_create1", "v_create2"}
    /\ fs' = WriteFile(fs, TempLog, <<>>)
    /\ loc' = [loc EXCEPT ![w].file = TRUE]
    /\ Step(w, IF pc[w] = "v_create1" THEN "v_write1" ELSE "v_write2", "pending")
    /\ UNCHANGED <<poisoned, listed, last, nOps, seed, lockHeld>>

\* write_errors_or_warnings(&file, ..): the errors, then the warnings, of which the
\* grammar of the model gives none; a File whose path was removed writes to no path
VerifyWrite(w) ==
    /\ pc[w] \in {"v_write1", "v_write2"}
    /\ fs' = IF loc[w].file
             THEN [fs EXCEPT ![TempLog] =
                      Overlay(@, IF pc[w] = "v_write1" THEN OwnErrors(w) ELSE <<>>)]
             ELSE fs
    /\ Step(w, IF pc[w] = "v_write1" THEN "v_read1" ELSE "v_read2", "pending")
    /\ UNCHANGED <<poisoned, listed, last, nOps, seed, lockHeld, loc>>

\* fs::read_to_string(&temp_path)?
VerifyRead(w) ==
    /\ pc[w] \in {"v_read1", "v_read2"}
    /\ IF ~Exists(fs, TempLog)
       THEN Step(w, "done", "err") /\ UNCHANGED loc
       ELSE /\ loc' = IF pc[w] = "v_read1"
                      THEN [loc EXCEPT ![w].errors_str = fs[TempLog]]
                      ELSE [loc EXCEPT ![w].warnings_str = fs[TempLog]]
            /\ Step(w, IF pc[w] = "v_read1" THEN "v_create2" ELSE "v_remove", "pending")
    /\ UNCHANGED <<fs, poisoned, listed, last, nOps, seed, lockHeld>>

\* fs::remove_file(temp_path).ok(), and the result returned
VerifyRemove(w) ==
    /\ pc[w] = "v_remove"
    /\ fs' = RemoveFile(fs, TempLog)
    /\ loc' = [v \in Workers |-> [loc[v] EXCEPT !.file = FALSE]]
    /\ Step(w, "done", "ok")
    /\ UNCHANGED <<poisoned, listed, last, nOps, seed, lockHeld>>

\* a ledger whose last entry add_transaction wrote for a narration that holds a quote
BrokenFs ==
    [ManualFs EXCEPT ![Join(DataDir, PeriodFileName(ParseDate(D0105)))] =
        @ \o HeaderText(Tx(D0112, <<"*">>, Some(<<"p">>), Some(<<"b", QT, "c">>), <<>>))]

InitVerify ==
    /\ seed \in {"manual", "broken"}
    /\ fs = IF seed = "broken" THEN BrokenFs ELSE ManualFs
    /\ poisoned = FALSE
    /\ listed = <<>>
    /\ last = NoCall
    /\ nOps = 0
    /\ ConcIdle

NextVerify ==
    \E w \in Workers :
        \/ VerifyReceive(w) \/ VerifyParse(w) \/ VerifyCreate(w)
        \/ VerifyWrite(w) \/ VerifyRead(w) \/ VerifyRemove(w)

SpecVerify == InitVerify /\ [][NextVerify]_vars

-----------------------------------------------------------------------------
(* The identifier codec on its own: the scanner builds an id, a handler decodes one *)

MaxOffset == 40

\* paths the scanner can meet: none holds a colon
CodecPaths ==
    { Join(DataDir, PeriodFileName(ParseDate(D0105))),
      <<".", "/", "a", " ", "b", ".", "b", "e", "a", "n">>,
      <<"1", "2">> }

\* ids a client can send
CodecIds ==
    { <<"x">>, <<"x", ":">>, <<":", "5">>, <<"x", ":", "+">>, <<"x", ":", "+", "7">>,
      <<"x", ":", "-", "0">>, <<"x", ":", "7", "a">>, <<"x", ":", " ", "7">>,
      <<"x", ":", "0", "0", "7">>, <<"a", ":", "b", ":", "5">>,
      <<"x", ":">> \o UsizeMax \o <<"0">>,
      <<"x", ":">> \o SubSeq(UsizeMax, 1, Len(UsizeMax) - 1) \o <<"6">> }

Decoded(op, id, path, start, parts) ==
    last' = [op |-> op, res |-> IF parts.ok THEN "ok" ELSE "err", ran |-> TRUE, id |-> id,
             tx |-> TxB, name |-> path, before |-> NoFiles, since |-> start]

\* the id of a transaction found at start in path, handed back to delete_transaction
ResolveScanned ==
    /\ \E path \in CodecPaths, start \in 0..MaxOffset :
          Decoded("resolve", EncodeId(path, start), path, start,
                  DecodeId(EncodeId(path, start)))
    /\ UNCHANGED <<fs, poisoned, listed, nOps, seed, lockHeld, pc, req, loc>>

\* an id as the client wrote it
DecodeSent ==
    /\ \E id \in CodecIds : Decoded("decode", id, <<>>, 0, DecodeId(id))
    /\ UNCHANGED <<fs, poisoned, listed, nOps, seed, lockHeld, pc, req, loc>>

NextCodec == ResolveScanned \/ DecodeSent

SpecCodec == Init /\ [][NextCodec]_vars

-----------------------------------------------------------------------------
(* What the claims speak of *)

\* the serialized text of every transaction of a file: header line through last posting line
EntryText(c, d) == Slice(c, d.dateStart, IF d.lastLine < Len(c) THEN d.lastLine + 1 ELSE d.lastLine)

EntrySpans(f, path) ==
    IF ~Exists(f, path) THEN <<>>
    ELSE LET r == ParseContent(f[path]) IN
         IF r.ok THEN SelectSeq(r.directives, IsTxn) ELSE <<>>

EntryTexts(f, path) ==
    LET ds == EntrySpans(f, path) IN [i \in 1..Len(ds) |-> EntryText(f[path], ds[i])]

\* the entry texts of a file without the entry that starts at an offset
EntryTextsWithout(f, path, start) ==
    LET ds == SelectSeq(EntrySpans(f, path), LAMBDA d : d.dateStart # start)
    IN  [i \in 1..Len(ds) |-> EntryText(f[path], ds[i])]

AllPaths == DOMAIN fs \cup DOMAIN last.before

\* every listing a client can get of the files f
Listings(f) == {list_transactions(f, o) : o \in WalkOrders(ScannedFiles(f, StateDataDir))}

LastParts == DecodeId(last.id)

DeleteSucceeded == last.op = "delete" /\ last.ran /\ last.res = "ok"

\* C3 (as claimed): after a delete_transaction(id) that succeeded no listing has an entry with
\* that id, and the serialized text of every other transaction of every file is unchanged
C3_DeletedIdGone ==
    DeleteSucceeded =>
        /\ \A r \in Listings(fs) :
              r.ok /\ \A i \in 1..Len(r.txs) : r.txs[i].id.val # last.id
        /\ \A p \in AllPaths :
              EntryTexts(fs, p) =
                  IF p = LastParts.path THEN EntryTextsWithout(last.before, p, LastParts.start)
                  ELSE EntryTexts(last.before, p)

\* number of "\n" bytes directly before offset s
RECURSIVE NewlinesBefore(_, _)
NewlinesBefore(c, s) == IF s > 0 /\ c[s] = NL THEN 1 + NewlinesBefore(c, s - 1) ELSE 0

\* number of "\n" bytes from offset e on
RECURSIVE NewlinesFrom(_, _)
NewlinesFrom(c, e) == IF e < Len(c) /\ c[e + 1] = NL THEN 1 + NewlinesFrom(c, e + 1) ELSE 0

\* blank lines directly before the line that starts at s: the first "\n" of the run ends the
\* line before, unless the run starts the file
BlankLinesBefore(c, s) ==
    LET n == NewlinesBefore(c, s) IN IF n = s THEN n ELSE n - 1

BlankLinesAt(c, s) == BlankLinesBefore(c, s) + NewlinesFrom(c, s)

\* C4 (as claimed): a delete removes the entry's lines through exactly one line terminator,
\* and leaves between the entry's former neighbours no more blank lines than separated the
\* entry from either neighbour before
C4_NoBlankLineAccumulation ==
    (DeleteSucceeded /\ FileName(LastParts.path) # MainBean) =>
        LET cb == last.before[LastParts.path]
            ca == fs[LastParts.path]
            s == LastParts.start
            e == s + Len(cb) - Len(ca)
        IN  /\ ca = Slice(cb, 0, s) \o Slice(cb, e, Len(cb))
            /\ e > s /\ cb[e] = NL /\ \A i \in (s + 1)..(e - 1) : ~(cb[i] = NL /\ cb[i + 1] = NL)
            /\ (NewlinesBefore(cb, s) < s /\ NewlinesFrom(cb, e) < Len(cb) - e) =>
                   BlankLinesAt(ca, s) <= Max(BlankLinesBefore(cb, s), NewlinesFrom(cb, e))

\* number of lines of the root file that are the include line of a file name
IncludeCount(f, name) ==
    Len(SelectSeq(LineTexts(ReadOrDefault(f, Join(StateDataDir, MainBean)), 0),
                  LAMBDA l : l = IncludeLine(name)))

\* C5 (as claimed): started on an empty directory, every period file that holds an entry
\* has exactly one include line in main.bean
C5_IncludedExactlyOnce ==
    seed = "empty" =>
        \A p \in ScannedFiles(fs, StateDataDir) :
            Len(EntrySpans(fs, p)) > 0 => IncludeCount(fs, FileName(p)) = 1

EndsWith(c, suffix) ==
    Len(c) >= Len(suffix) /\ Slice(c, Len(c) - Len(suffix), Len(c)) = suffix

UpdateSucceeded == last.op = "update" /\ last.ran /\ last.res = "ok"

\* C6: a successful update_transaction(id, T') leaves the files that delete_transaction(id)
\* followed by add_transaction(data_dir, T') leaves, and T' ends the period file of T'.date
C6_UpdateIsDeleteThenAdd ==
    UpdateSucceeded =>
        LET d == delete_transaction(last.before, last.id)
            a == add_transaction(d.fs, StateDataDir, last.tx)
        IN  /\ d.res = "ok" /\ a.res = "ok"
            /\ fs = a.fs
            /\ EndsWith(ReadOrDefault(fs, Join(StateDataDir, PeriodFileName(ParseDate(last.tx.date)))),
                        TxText(last.tx))

\* C6 witness: an update moved an entry into another period file
C6_Witness ==
    /\ UpdateSucceeded
    /\ LastParts.path # Join(StateDataDir, PeriodFileName(ParseDate(last.tx.date)))

EntryCount(f) ==
    LET RECURSIVE Sum(_)
        Sum(S) == IF S = {} THEN 0
                  ELSE LET p == CHOOSE q \in S : TRUE IN Len(EntrySpans(f, p)) + Sum(S \ {p})
    IN  Sum(DOMAIN f)

\* the update's delete step succeeded and its recreate step failed
RecreateFailed ==
    /\ last.op = "update" /\ last.ran
    /\ delete_transaction(last.before, last.id).res = "ok"
    /\ ~ParseDate(last.tx.date).ok

AddSucceeded == last.op = "add" /\ last.ran /\ last.res = "ok"

\* the fields add_transaction writes and parse_file_transactions reads back
SameFields(t, tx) ==
    /\ t.date = tx.date /\ t.flag = tx.flag
    /\ t.payee = tx.payee /\ t.narration = tx.narration
    /\ Len(t.postings) = Len(tx.postings)
    /\ \A j \in 1..Len(tx.postings) :
          /\ t.postings[j].account = tx.postings[j].account
          /\ t.postings[j].amount = tx.postings[j].amount
          /\ t.postings[j].currency = tx.postings[j].currency

\* the files without the last n bytes of one of them
WithoutTail(f, path, n) == [f EXCEPT ![path] = Slice(f[path], 0, Len(f[path]) - n)]

\* C9 (as claimed): after add_transaction(dir, T) every listing has an entry with T's date,
\* flag, payee, narration and postings, whose id makes delete_transaction remove exactly the
\* header and posting lines written for T
C9_AddThenListRoundTrip ==
    AddSucceeded =>
        \A r \in Listings(fs) :
            /\ r.ok
            /\ \E i \in 1..Len(r.txs) :
                  /\ SameFields(r.txs[i], last.tx)
                  /\ delete_transaction(fs, r.txs[i].id.val) =
                         Outcome("ok", WithoutTail(fs,
                             Join(StateDataDir, PeriodFileName(ParseDate(last.tx.date))),
                             Len(HeaderText(last.tx) \o PostingsText(last.tx.postings))))

\* the id of a listed transaction resolves, in the files f, to that transaction
Resolves(f, t) ==
    LET parts == DecodeId(t.id.val)
        r == IF Exists(f, parts.path) THEN ParseSources(f, parts.path)
             ELSE [ok |-> FALSE, directives |-> <<>>]
        k == FindDirective(r.directives, parts.start, 1)
    IN  r.ok /\ k > 0 /\ ToTransaction(parts.path, r.directives[k]) = t

\* delete_transaction(id) takes the entry at the id's offset out of the id's file and
\* leaves every other entry and every other file as they are
RemovesExactly(f, t) ==
    LET parts == DecodeId(t.id.val)
        out == delete_transaction(f, t.id.val)
        was == EntrySpans(f, parts.path)
        kept == SelectSeq(was, LAMBDA d : d.dateStart # parts.start)
    IN  /\ out.res = "ok"
        /\ DOMAIN out.fs = DOMAIN f
        /\ \A p \in DOMAIN f : p # parts.path => out.fs[p] = f[p]
        /\ EntryTexts(out.fs, parts.path) =
               [i \in 1..Len(kept) |-> EntryText(f[parts.path], kept[i])]
        /\ Len(kept) = Len(was) - 1

\* the call shifts the bytes at or before the listed transaction in its file
ShiftsBytesBefore(call, t) ==
    /\ call.op \in {"delete", "update"} /\ call.ran
    /\ DecodeId(call.id).ok
    /\ DecodeId(call.id).path = DecodeId(t.id.val).path
    /\ DecodeId(call.id).start <= DecodeId(t.id.val).start

InSequence == {w \in Workers : pc[w] \in Held}

\* C1: at most one write handler is between taking the lock and dropping it, the lock is
\* held while one is, and every step that reads a file into a handler's content or writes
\* a file is taken by that handler while no other is in its sequence
C1_WritersExcluded ==
    [][/\ Cardinality({w \in Workers : pc'[w] \in Held}) <= 1
       /\ (\E w \in Workers : pc'[w] \in Held) => lockHeld'
       /\ (fs' # fs \/ loc' # loc) =>
              \E w \in Workers : /\ InSequence = {w}
                                 /\ pc'[w] # pc[w]
                                 /\ \A v \in Workers \ {w} : pc'[v] = pc[v] /\ loc'[v] = loc[v]]_vars

\* C1 witness: a handler waits for the lock while another is between its read and its write
C1_Witness ==
    \E w, v \in Workers :
        pc[w] \in {"t_writemain", "d_parse", "d_write", "f_write"} /\ pc[v] = "wait"

\* the text add_transaction writes after the blank line
Written(tx) == HeaderText(tx) \o PostingsText(tx.postings)

\* the text of the entry the id of a listed transaction leads to
ResolvedText(f, t) ==
    LET parts == DecodeId(t.id.val)
        ds == EntrySpans(f, parts.path)
        k == FindDirective(ds, parts.start, 1)
    IN  IF k = 0 THEN <<>> ELSE EntryText(f[parts.path], ds[k])

CountListed(r, f, text) ==
    Cardinality({i \in 1..Len(r.txs) : ResolvedText(f, r.txs[i]) = text})

\* both tasks returned from add_transaction calls on different dates that took the lock
\* one directly after the other
TwoAddsReturned ==
    /\ \A w \in Workers : pc[w] = "done" /\ req[w].op = "add" /\ req[w].res = "ok"
    /\ req[1].tx.date # req[2].tx.date
    /\ req[1].turn - req[2].turn \in {-1, 1}

\* the ledger before the first of the two
LedgerBefore == IF req[1].turn < req[2].turn THEN req[1].before ELSE req[2].before

\* C2: once two concurrent add_transaction calls on different dates have returned, every
\* listing has one more entry with the text of each than before, and main.bean includes
\* the period file of each
C2_ConcurrentAddsKept ==
    TwoAddsReturned =>
        \A w \in Workers :
            /\ \A r \in Listings(fs), r0 \in Listings(LedgerBefore) :
                  /\ r.ok
                  /\ CountListed(r, fs, Written(req[w].tx)) =
                         CountListed(r0, LedgerBefore, Written(req[w].tx)) + 1
            /\ IncludeCount(fs, PeriodFileName(ParseDate(req[w].tx.date))) >= 1

\* C2 witness: two add_transaction calls that wrote the same period file have returned
C2_Witness ==
    /\ TwoAddsReturned
    /\ PeriodFileName(ParseDate(req[1].tx.date)) = PeriodFileName(ParseDate(req[2].tx.date))

\* the account an accounts-file line opens, if it is an open directive
OpenedName(l) ==
    LET r == ParseContent(l \o <<NL>>) IN
    IF r.ok /\ Len(r.directives) = 1 /\ r.directives[1].kind = "open"
    THEN Some(r.directives[1].account) ELSE None

AccountLines(f) ==
    SelectSeq(LineTexts(ReadOrDefault(f, Join(StateDataDir, AccountsBean)), 0),
              LAMBDA l : Len(l) > 0)

\* C8 (as claimed): delete_account(name) leaves every accounts-file line whose account
\* field is not exactly name
C8_DeleteAccountExactName ==
    (last.op = "delete_account" /\ last.ran /\ last.res = "ok") =>
        AccountLines(fs) =
            SelectSeq(AccountLines(last.before), LAMBDA l : OpenedName(l) # Some(last.name))


-----------------------------------------------------------------------------
(* C11, C15: the identifier codec *)

\* C11: for every path without a colon and every offset, decoding the id the scanner
\* built from them succeeds and gives back exactly that path and that offset
C11_IdRoundTrip ==
    last.op = "resolve" =>
        /\ ~Contains(last.name, <<":">>)
        /\ last.res = "ok"
        /\ DecodeId(last.id) = [ok |-> TRUE, path |-> last.name, start |-> last.since]

\* an id with a two-digit offset, built for a path with a space, was decoded
C11_Witness ==
    /\ last.op = "resolve"
    /\ last.res = "ok"
    /\ last.since >= 10
    /\ Contains(last.name, <<" ">>)
    /\ DecodeId(last.id).start = last.since

HasColon(id) == Find(id, ":", 0) < Len(id)

AfterColon(id) == Slice(id, Find(id, ":", 0) + 1, Len(id))

\* the text of a non-negative integer: digits, with or without a plus sign
NatDigits(s) == IF Len(s) > 0 /\ s[1] = "+" THEN Tail(s) ELSE s

NatText(s) == Len(NatDigits(s)) > 0 /\ \A i \in 1..Len(NatDigits(s)) : IsDigit(NatDigits(s)[i])

WasDecoded == last.op \in {"decode", "resolve"}

\* C15 as stated: decoding fails exactly when the id has no colon or the text after
\* its first colon is not a non-negative integer
C15_DecodeFailsExactly ==
    WasDecoded =>
        (last.res = "err" <=> (~HasColon(last.id) \/ ~NatText(AfterColon(last.id))))

\* C15, amended: decoding fails exactly when the id has no colon or the text after its
\* first colon is not a non-negative integer that fits usize (at most 2^64 - 1)
C15_DecodeFailsExactlyUsize ==
    WasDecoded =>
        (last.res = "err" <=>
            \/ ~HasColon(last.id)
            \/ ~NatText(AfterColon(last.id))
            \/ ~FitsUsize(NatDigits(AfterColon(last.id))))

\* an id whose offset is the integer 2^64 + 1 was refused
C15_Witness ==
    /\ last.op = "decode"
    /\ HasColon(last.id)
    /\ NatText(AfterColon(last.id))
    /\ ~FitsUsize(NatDigits(AfterColon(last.id)))
    /\ last.res = "err"

-----------------------------------------------------------------------------
(* C14, C18, C19: what a call leaves of the files *)

DeleteFailed == last.op = "delete" /\ last.ran /\ last.res = "err"

\* a transaction directive starts at the id's offset in the id's file
MatchesDirective(f, id) ==
    LET parts == DecodeId(id) IN
        /\ parts.ok /\ Exists(f, parts.path)
        /\ ParseSources(f, parts.path).ok
        /\ FindDirective(ParseSources(f, parts.path).directives, parts.start, 1) > 0

\* C14: a delete_transaction that returns an error leaves every file as it was, and a
\* delete_transaction that changed a file had found a directive at the id's offset
C14_FailedDeleteChangesNothing ==
    /\ DeleteFailed => fs = last.before
    /\ (last.op = "delete" /\ fs # last.before) => MatchesDirective(last.before, last.id)

\* an id that decodes, of a file that parses, found no directive at its offset
C14_Witness ==
    /\ DeleteFailed
    /\ DecodeId(last.id).ok
    /\ Exists(last.before, DecodeId(last.id).path)
    /\ ParseSources(last.before, DecodeId(last.id).path).ok
    /\ fs = last.before

IsPrefix(a, b) == Len(a) <= Len(b) /\ SubSeq(b, 1, Len(a)) = a

AddedPaths(tx) ==
    { Join(StateDataDir, PeriodFileName(ParseDate(tx.date))), Join(StateDataDir, MainBean) }

\* C18: after an add_transaction that succeeded, every file that existed is a prefix of
\* what it is now, only the period file and main.bean differ or are new, and the id of
\* every transaction a listing held before leads to the same transaction
C18_AddOnlyAppends ==
    AddSucceeded =>
        /\ \A p \in DOMAIN last.before :
              /\ p \in DOMAIN fs
              /\ IsPrefix(last.before[p], fs[p])
              /\ p \notin AddedPaths(last.tx) => fs[p] = last.before[p]
        /\ DOMAIN fs \ DOMAIN last.before \subseteq AddedPaths(last.tx)
        /\ \A r \in Listings(last.before) :
              r.ok => \A i \in 1..Len(r.txs) : Resolves(fs, r.txs[i])

\* an add grew a period file that held entries, beside a main.bean and an accounts file
C18_Witness ==
    /\ AddSucceeded
    /\ \E p \in DOMAIN last.before :
          /\ p # Join(StateDataDir, MainBean)
          /\ Len(EntrySpans(last.before, p)) > 0
          /\ Len(fs[p]) > Len(last.before[p])
    /\ Exists(last.before, Join(StateDataDir, MainBean))
    /\ Exists(last.before, Join(StateDataDir, AccountsBean))

\* C19: an add_transaction whose date does not parse returns an error and neither creates
\* nor changes a file
C19_BadDateWritesNothing ==
    (last.op = "add" /\ last.ran /\ ~ParseDate(last.tx.date).ok) =>
        last.res = "err" /\ fs = last.before

\* an add with month 13 was refused
C19_Witness ==
    /\ last.op = "add" /\ last.ran
    /\ last.tx.date = DBad
    /\ last.res = "err"

-----------------------------------------------------------------------------
(* C17: the listing *)

\* the files directly inside the ledger directory named *.bean, but for main.bean
LedgerFiles(f) ==
    {p \in DOMAIN f :
        \E n \in {FileName(q) : q \in DOMAIN f} :
            /\ p = Join(StateDataDir, n)
            /\ ~Contains(n, <<"/">>)
            /\ EndsWith(n, DotBean) /\ Len(n) > Len(DotBean)
            /\ n # MainBean}

\* the transactions of the files, each with its id
TransactionsOf(f) ==
    UNION { {ToTransaction(p, EntrySpans(f, p)[k]) : k \in 1..Len(EntrySpans(f, p))} :
            p \in LedgerFiles(f) }

\* a date as a number that grows with the calendar
DayNumber(date) ==
    ParseDate(date).year * 10000 + ParseDate(date).month * 100 + ParseDate(date).day

Rank(order, p) == CHOOSE k \in 1..Len(order) : order[k] = p

\* a before b in the scan: an earlier file, or the same file and a lower offset
ScannedBefore(order, a, b) ==
    LET pa == DecodeId(a.id.val) pb == DecodeId(b.id.val) IN
        \/ Rank(order, pa.path) < Rank(order, pb.path)
        \/ pa.path = pb.path /\ pa.start < pb.start

ListSucceeded == last.op = "list" /\ last.ran /\ last.res = "ok"

-----------------------------------------------------------------------------
(* C16: the span delete_transaction removes *)

SetMax(S) == CHOOSE m \in S : \A x \in S : x <= m

\* the ends of the tokens delete_transaction looks at
TrackedEnds(d) ==
    {d.dateEnd}
    \cup (IF d.narration.some THEN {d.narrEnd} ELSE {})
    \cup {d.postings[j].accountEnd : j \in 1..Len(d.postings)}
    \cup {d.postings[j].amountEnd : j \in {k \in 1..Len(d.postings) : d.postings[k].amount.some}}

\* just past the first line terminator at or after offset e, or the end of the file
PastLine(c, e) ==
    IF \E k \in e..(Len(c) - 1) : c[k + 1] = NL
    THEN 1 + CHOOSE k \in e..(Len(c) - 1) : c[k + 1] = NL /\ \A m \in e..(k - 1) : c[m + 1] # NL
    ELSE Len(c)

\* the transaction directive of the file's own text that starts at the id's offset
OwnDirective(f, id) ==
    LET ds == EntrySpans(f, DecodeId(id).path)
    IN  ds[FindDirective(ds, DecodeId(id).start, 1)]

HasOwnDirective(f, id) ==
    /\ DecodeId(id).ok
    /\ FindDirective(EntrySpans(f, DecodeId(id).path), DecodeId(id).start, 1) > 0

\* C16 (as claimed): a delete of a directive found at the offset writes the content
\* without the bytes from the offset to just past the first line terminator at or after
\* the greatest tracked token end, and that range is the whole text of the directive,
\* header line through last line, so that nothing of the directive stays in the file
C16_SpanCoversDirective ==
    (DeleteSucceeded /\ HasOwnDirective(last.before, last.id)) =>
        LET p == DecodeId(last.id).path
            s == DecodeId(last.id).start
            c == last.before[p]
            d == OwnDirective(last.before, last.id)
        IN  /\ fs[p] = Slice(c, 0, s) \o Slice(c, PastLine(c, SetMax(TrackedEnds(d))), Len(c))
            /\ PastLine(c, SetMax(TrackedEnds(d))) = PastLine(c, d.lastLine)

-----------------------------------------------------------------------------
(* C20: the write lock after a write call ended *)

WriteOps == {"add", "delete", "update", "add_account", "delete_account", "update_account"}

\* C20 (as claimed): when a write call has ended, however it ended, the lock is free and
\* can be taken again, and every write call took the lock and ran its mutation
C20_LockStaysUsable ==
    /\ ~lockHeld
    /\ ~poisoned
    /\ last.op \in WriteOps => last.ran

-----------------------------------------------------------------------------
(* C12: what a reader sees of a file that is being written *)

\* task v has truncated the file at p and not yet written its new content
Writing(v, p) ==
    \/ pc[v] = "d_fill" /\ p = DecodeId(req[v].id).path
    \/ pc[v] = "f_fill" /\ p = Join(DirOf(req[v].op), AccountsBean)

\* the content the write of task v puts in place of loc[v].content
NewContent(v) ==
    IF pc[v] = "d_fill"
    THEN Splice(fs, DecodeId(req[v].id).path, loc[v].content,
                DecodeId(req[v].id).start, loc[v].end).fs[DecodeId(req[v].id).path]
    ELSE Filtered(loc[v].content, req[v].name)

\* the complete contents of the file at p: what it held before the write in progress
\* and what it holds after it, or what it holds now if no write is in progress
CompleteContents(p) ==
    IF \E v \in Workers : Writing(v, p)
    THEN UNION {{loc[v].content, NewContent(v)} : v \in {u \in Workers : Writing(u, p)}}
    ELSE {fs[p]}

\* C12 (as claimed): whatever a read operation reads of a file, beside a write operation
\* or not, is the complete content of the file before or after the write
C12_ReadersSeeCompleteFiles ==
    [][\A w \in Workers :
          (pc[w] = "r_open" /\ loc'[w] # loc[w]) =>
              loc'[w].content \in CompleteContents(loc'[w].path)]_vars

-----------------------------------------------------------------------------
(* C13: what verify returns *)

\* C13 (as claimed): a verify call that parsed the ledger returns a result, whose errors
\* are those of its own parse (none if the parse succeeded, some if it failed) and whose
\* warnings are those of its own parse, whatever other verify calls do meanwhile
C13_VerifyReturnsOwnDiagnostics ==
    \A w \in Workers :
        (req[w].op = "verify" /\ pc[w] = "done"
            /\ Exists(req[w].before, Join(StateDataDir, MainBean))) =>
                /\ req[w].res = "ok"
                /\ loc[w].errors_str = OwnErrors(w)
                /\ loc[w].warnings_str = <<>>

=============================================================================
